---- MODULE Spec2Model ----
(***************************************************************************)
(* State machine of the study-aid application (src/App.tsx), its types     *)
(* (types.ts) and its collaborator wrapper (services/gemini.ts).           *)
(*                                                                         *)
(* One action per event handler.  A handler that awaits the collaborator   *)
(* is two actions: the synchronous part up to the await, which records the *)
(* call with the values its closure captured, and the continuation, which  *)
(* consumes one recorded call together with the collaborator's reply.      *)
(* The effect that saves the history (App.tsx 52-58) runs after every      *)
(* commit that replaced the history array and before the next event, so it *)
(* is part of the action that replaced the array.                          *)
(***************************************************************************)
EXTENDS Integers, Sequences, FiniteSets, TLC

----------------------------------------------------------------------------
(* Bounds of the exploration *)

MaxClock == 1           \* Date.now() ranges over 0..MaxClock
MaxHistory == 2         \* records in the history plus analysis calls in flight
MaxCalls == 2           \* analysis calls in flight
MaxVocabCalls == 2      \* vocabulary calls in flight
MaxWords == 2           \* entries of a vocabulary result
MaxWriteFailures == 1   \* localStorage.setItem calls that throw

----------------------------------------------------------------------------
(* Nullable values: null is the empty sequence, a value is a singleton *)

None == <<>>
Some(v) == <<v>>

(* types.ts *)
StatusIDLE == "IDLE"
StatusLOADING == "LOADING"
StatusSUCCESS == "SUCCESS"
StatusERROR == "ERROR"

TabANALYZE == "ANALYZE"
TabVOCABULARY == "VOCABULARY"
TabHISTORY == "HISTORY"

SUBJECT_LABELS == <<"MATH", "PHYSICS", "CHEMISTRY", "BIOLOGY", "ENGLISH">>
Subject == {SUBJECT_LABELS[i] : i \in 1..Len(SUBJECT_LABELS)}

(* The values the user types, picks or uploads *)
Texts == {"", "x+1=2"}
Images == {None, Some("data:image/jpeg;base64,AAAA")}
Topics == {"", "travel"}
Tabs == {TabANALYZE, TabVOCABULARY, TabHISTORY}

ErrorText == "analysis failed, retry later"

----------------------------------------------------------------------------
(* JSON text.  A text is empty, unparsable, or the rendering of a tree of  *)
(* tagged nodes; numbers are rendered in decimal and null as a token.      *)

Str(s) == [t |-> "string", v |-> s]
Num(n) == [t |-> "number", v |-> ToString(n)]
JNull == [t |-> "null"]
Arr(s) == [t |-> "array", v |-> s]
Obj(r) == [t |-> "object", v |-> r]

EmptyText == [kind |-> "empty"]
GarbageText == [kind |-> "garbage"]
JsonText(tree) == [kind |-> "json", tree |-> tree]

ParseNumber(s) == CHOOSE n \in 0..(MaxClock + 1) : ToString(n) = s

(* JSON.stringify / JSON.parse of an AnalysisResponse (types.ts 2-11); a  *)
(* field the object does not have is not written, and not read back.      *)
StringifyAnalysis(data) ==
    Obj([k \in DOMAIN data |->
          CASE k = "stepByStepSolution" ->
                 Arr([i \in DOMAIN data[k] |-> Str(data[k][i])])
            [] k = "practiceQuestion" ->
                 Obj([f \in DOMAIN data[k] |-> Str(data[k][f])])
            [] OTHER -> Str(data[k])])

ParseAnalysis(tree) ==
    [k \in DOMAIN tree.v |->
          CASE k = "stepByStepSolution" ->
                 [i \in DOMAIN tree.v[k].v |-> tree.v[k].v[i].v]
            [] k = "practiceQuestion" ->
                 [f \in DOMAIN tree.v[k].v |-> tree.v[k].v[f].v]
            [] OTHER -> tree.v[k].v]

(* JSON.stringify / JSON.parse of a HistoryItem (types.ts 43-50) *)
StringifyItem(item) ==
    Obj([id |-> Str(item.id),
         timestamp |-> Num(item.timestamp),
         subject |-> Str(item.subject),
         originalProblem |-> Str(item.originalProblem),
         originalImage |-> IF item.originalImage = None THEN JNull
                           ELSE Str(item.originalImage[1]),
         result |-> StringifyAnalysis(item.result)])

(* A read that takes every image for absent *)
ParseItemWithoutImage(tree) ==
    [id |-> tree.v.id.v,
     timestamp |-> ParseNumber(tree.v.timestamp.v),
     subject |-> tree.v.subject.v,
     originalProblem |-> tree.v.originalProblem.v,
     originalImage |-> None,
     result |-> ParseAnalysis(tree.v.result)]

ParseItem(tree) ==
    [id |-> tree.v.id.v,
     timestamp |-> ParseNumber(tree.v.timestamp.v),
     subject |-> tree.v.subject.v,
     originalProblem |-> tree.v.originalProblem.v,
     originalImage |-> IF tree.v.originalImage.t = "null" THEN None
                       ELSE Some(tree.v.originalImage.v),
     result |-> ParseAnalysis(tree.v.result)]

(* The history state is typed HistoryItem[] (App.tsx 40) and holds         *)
(* whatever JSON.parse returned (App.tsx 43).  An array is a sequence; a   *)
(* value that is not an array is kept as its JSON value at index 0, which  *)
(* no sequence has.                                                        *)
NotAnArray(value) == [i \in {0} |-> value]
IsArray(h) == 0 \notin DOMAIN h

(* JSON.stringify(history), App.tsx 54 *)
StringifyHistory(h) ==
    IF IsArray(h)
    THEN JsonText(Arr([i \in DOMAIN h |-> StringifyItem(h[i])]))
    ELSE JsonText(h[0])

(* JSON.parse(saved) of a text that holds an array of records, App.tsx 43 *)
ParseHistory(text) == [i \in DOMAIN text.tree.v |-> ParseItem(text.tree.v[i])]

----------------------------------------------------------------------------
(* The collaborator's replies (services/gemini.ts) *)

WellFormed ==
    [mistakeDiagnosis |-> "sign error",
     coreConcept |-> "linear equations",
     stepByStepSolution |-> <<"subtract 1">>,
     practiceQuestion |-> [question |-> "x+2=5", answer |-> "3",
                           explanation |-> "subtract 2"]]

(* an object that parses but has no practiceQuestion *)
MissingPracticeQuestion ==
    [mistakeDiagnosis |-> "sign error",
     coreConcept |-> "linear equations",
     stepByStepSolution |-> <<"subtract 1">>]

(* ai.models.generateContent either rejects or resolves to a response     *)
(* whose text is one of these                                              *)
Rejected == [kind |-> "rejected"]
AnalysisReplies ==
    {Rejected, EmptyText, GarbageText,
     JsonText(StringifyAnalysis(WellFormed)),
     JsonText(StringifyAnalysis(MissingPracticeQuestion))}

(* analyzeProblem, gemini.ts 194-214: throws when the call rejects, when   *)
(* the text is empty and when JSON.parse throws; otherwise returns the     *)
(* parsed value as it is                                                   *)
AnalyzeThrows(reply) == reply.kind # "json"
AnalyzeReturns(reply) == ParseAnalysis(reply.tree)

VocabWords(n) == [i \in 1..n |-> [word |-> "w", pronunciation |-> "p",
                                  definition |-> "d", example |-> "e"]]
VocabData(n) == [topic |-> "travel", words |-> VocabWords(n)]

----------------------------------------------------------------------------
(* State of the App component (App.tsx 24-49), of localStorage and of the  *)
(* environment                                                             *)

VARIABLES
    activeTab,      \* App.tsx 24
    subject,        \* App.tsx 27
    inputText,      \* App.tsx 28
    selectedImage,  \* App.tsx 29, None or Some(data URL)
    status,         \* App.tsx 30
    result,         \* App.tsx 31, None or Some(AnalysisResponse)
    errorMsg,       \* App.tsx 32, None or Some(message)
    vocabTopic,     \* App.tsx 35
    vocabStatus,    \* App.tsx 36
    vocabResult,    \* App.tsx 37, None or Some(VocabularyResponse)
    revealedWords,  \* App.tsx 38, set of card indices from 0
    history,        \* App.tsx 41, sequence of HistoryItem, index 1 first
    storage,        \* localStorage['study-app-history']: None or Some(text)
    analysisCalls,  \* analyzeProblem calls awaited, oldest first, each the
                    \* values captured by the handleSubmit that made it
    vocabCalls,     \* generateVocabulary calls awaited, oldest first
    now,            \* Date.now()
    mounted,        \* FALSE once a render has thrown and React has
                    \* unmounted the tree
    writeFailures,  \* number of setItem calls that threw
    last            \* name of the handler that ran last

vars == <<activeTab, subject, inputText, selectedImage, status, result,
          errorMsg, vocabTopic, vocabStatus, vocabResult, revealedWords,
          history, storage, analysisCalls, vocabCalls, now, mounted,
          writeFailures, last>>

analysisVars == <<subject, inputText, selectedImage, status, result, errorMsg>>
vocabVars == <<vocabTopic, vocabStatus, vocabResult, revealedWords>>
historyVars == <<history, storage, writeFailures>>

(* Sequence helpers *)
RemoveAt(s, i) == [j \in 1..(Len(s) - 1) |-> IF j < i THEN s[j] ELSE s[j + 1]]

(* An initializer whose catch returns nothing *)
LoadHistoryCatchReturnsNull(slot) ==
    IF slot = None THEN <<>>
    ELSE IF slot[1].kind = "empty" THEN <<>>
    ELSE IF slot[1].kind # "json" THEN NotAnArray(JNull)
    ELSE IF slot[1].tree.t = "array" THEN ParseHistory(slot[1])
    ELSE NotAnArray(slot[1].tree)

(* App.tsx 41-49: the lazy initializer of the history state.  An absent    *)
(* slot and an empty text give [], a text JSON.parse rejects gives [] by   *)
(* the catch, and any other text gives the value JSON.parse returns,       *)
(* array or not.                                                           *)
LoadHistory(slot) ==
    IF slot = None THEN <<>>
    ELSE IF slot[1].kind # "json" THEN <<>>
    ELSE IF slot[1].tree.t = "array" THEN ParseHistory(slot[1])
    ELSE NotAnArray(slot[1].tree)

(* An effect that removes the slot when setItem throws *)
SaveHistoryRemovesOnFailure(h, ok) ==
    /\ ok \/ writeFailures < MaxWriteFailures
    /\ storage' = IF ok THEN Some(StringifyHistory(h)) ELSE None
    /\ writeFailures' = IF ok THEN writeFailures ELSE writeFailures + 1

(* The effect saving the array of the render before the commit *)
SaveHistoryStale(h, ok) ==
    /\ ok \/ writeFailures < MaxWriteFailures
    /\ storage' = IF ok THEN Some(StringifyHistory(history)) ELSE storage
    /\ writeFailures' = IF ok THEN writeFailures ELSE writeFailures + 1

(* App.tsx 52-58: the effect run after a commit that replaced the history  *)
(* array.  setItem either stores the text or throws, and the throw is      *)
(* caught and logged.                                                      *)
SaveHistory(h, ok) ==
    /\ ok \/ writeFailures < MaxWriteFailures
    /\ storage' = IF ok THEN Some(StringifyHistory(h)) ELSE storage
    /\ writeFailures' = IF ok THEN writeFailures ELSE writeFailures + 1

(* components/AnalysisResult.tsx 34 and 54: the component reads            *)
(* data.stepByStepSolution.map and data.practiceQuestion.question          *)
AnalysisResultThrows(data) ==
    ~({"stepByStepSolution", "practiceQuestion"} \subseteq DOMAIN data)

(* App.tsx 320-329: AnalysisResult is rendered on the analysis tab when    *)
(* the status is SUCCESS and a result is present                           *)
RenderThrows(tab, st, res) ==
    /\ tab = TabANALYZE
    /\ st = StatusSUCCESS
    /\ res # None
    /\ AnalysisResultThrows(res[1])

(* App.tsx 422-444: the history tab reads history.length and calls        *)
(* history.map; null has no length and an object has no map                *)
HistoryTabThrows(tab, h) == tab = TabHISTORY /\ ~IsArray(h)

(* A render that throws: there is no error boundary, React unmounts the    *)
(* root, the update is not committed and no effect runs                    *)
Unmount(op) ==
    /\ mounted' = FALSE
    /\ last' = op
    /\ UNCHANGED <<activeTab, analysisVars, vocabVars, historyVars,
                   analysisCalls, vocabCalls, now>>

Init ==
    /\ activeTab = TabANALYZE
    /\ subject = "MATH"
    /\ inputText = ""
    /\ selectedImage = None
    /\ status = StatusIDLE
    /\ result = None
    /\ errorMsg = None
    /\ vocabTopic = ""
    /\ vocabStatus = StatusIDLE
    /\ vocabResult = None
    /\ revealedWords = {}
    /\ history = LoadHistory(None)
    /\ \E ok \in BOOLEAN :
          /\ storage = IF ok THEN Some(StringifyHistory(history)) ELSE None
          /\ writeFailures = IF ok THEN 0 ELSE 1
    /\ analysisCalls = <<>>
    /\ vocabCalls = <<>>
    /\ now = 0
    /\ mounted = TRUE
    /\ last = "mount"

(* The clock advances *)
Tick ==
    /\ now < MaxClock
    /\ now' = now + 1
    /\ last' = "Tick"
    /\ UNCHANGED <<activeTab, analysisVars, vocabVars, historyVars,
                   analysisCalls, vocabCalls, mounted>>

(* The user reloads the page: the component state is built again from the  *)
(* slot, the awaited calls die with the page, the mount effect saves       *)
Reload(ok) ==
    /\ activeTab' = TabANALYZE
    /\ subject' = "MATH"
    /\ inputText' = ""
    /\ selectedImage' = None
    /\ status' = StatusIDLE
    /\ result' = None
    /\ errorMsg' = None
    /\ vocabTopic' = ""
    /\ vocabStatus' = StatusIDLE
    /\ vocabResult' = None
    /\ revealedWords' = {}
    /\ history' = LoadHistory(storage)
    /\ SaveHistory(history', ok)
    /\ analysisCalls' = <<>>
    /\ vocabCalls' = <<>>
    /\ mounted' = TRUE
    /\ last' = "reload"
    /\ UNCHANGED now

(* App.tsx 197, 203, 209 *)
setActiveTab(tab) ==
    /\ mounted
    /\ IF RenderThrows(tab, status, result) \/ HistoryTabThrows(tab, history)
       THEN Unmount("setActiveTab")
       ELSE /\ activeTab' = tab
            /\ last' = "setActiveTab"
            /\ UNCHANGED <<analysisVars, vocabVars, historyVars,
                           analysisCalls, vocabCalls, now, mounted>>

(* App.tsx 228, the subject selector of the analysis tab *)
setSubject(subj) ==
    /\ mounted
    /\ activeTab = TabANALYZE
    /\ subject' = subj
    /\ last' = "setSubject"
    /\ UNCHANGED <<activeTab, inputText, selectedImage, status, result,
                   errorMsg, vocabVars, historyVars, analysisCalls,
                   vocabCalls, now, mounted>>

(* App.tsx 250, the textarea of the analysis tab *)
setInputText(text) ==
    /\ mounted
    /\ activeTab = TabANALYZE
    /\ inputText' = text
    /\ last' = "setInputText"
    /\ UNCHANGED <<activeTab, subject, selectedImage, status, result,
                   errorMsg, vocabVars, historyVars, analysisCalls,
                   vocabCalls, now, mounted>>

(* App.tsx 63-72: reader.onloadend of a file picked earlier on the         *)
(* analysis tab, which is the tab the application starts on; the read      *)
(* takes any time                                                          *)
handleImageUpload(img) ==
    /\ mounted
    /\ img # None
    /\ selectedImage' = img
    /\ last' = "handleImageUpload"
    /\ UNCHANGED <<activeTab, subject, inputText, status, result, errorMsg,
                   vocabVars, historyVars, analysisCalls, vocabCalls, now,
                   mounted>>

(* App.tsx 74-79 and 294-307: the button exists while an image is shown *)
removeImage ==
    /\ mounted
    /\ activeTab = TabANALYZE
    /\ selectedImage # None
    /\ selectedImage' = None
    /\ last' = "removeImage"
    /\ UNCHANGED <<activeTab, subject, inputText, status, result, errorMsg,
                   vocabVars, historyVars, analysisCalls, vocabCalls, now,
                   mounted>>

----------------------------------------------------------------------------
(* The analysis session *)

(* The test left out *)
NeverNothingToAnalyze(text, image) == FALSE

(* App.tsx 82 and 276: !inputText && !selectedImage *)
NothingToAnalyze(text, image) == text = "" /\ image = None

(* App.tsx 276: the disabled attribute of the submit button *)
SubmitDisabled ==
    status = StatusLOADING \/ NothingToAnalyze(inputText, selectedImage)

(* App.tsx 81-89: handleSubmit up to the await.  The closure holds the     *)
(* inputText, subject and selectedImage of the render it was made in.      *)
handleSubmit ==
    IF NothingToAnalyze(inputText, selectedImage)
    THEN /\ last' = "handleSubmit.return"
         /\ UNCHANGED <<activeTab, analysisVars, vocabVars, historyVars,
                        analysisCalls, vocabCalls, now, mounted>>
    ELSE /\ Len(analysisCalls) < MaxCalls
         /\ IsArray(history) => Len(history) + Len(analysisCalls) < MaxHistory
         /\ status' = StatusLOADING
         /\ result' = None
         /\ errorMsg' = None
         /\ analysisCalls' = Append(analysisCalls,
                                    [inputText |-> inputText,
                                     subject |-> subject,
                                     selectedImage |-> selectedImage])
         /\ last' = "handleSubmit"
         /\ UNCHANGED <<activeTab, subject, inputText, selectedImage,
                        vocabVars, historyVars, vocabCalls, now, mounted>>

(* App.tsx 274-277: a click on the submit button; a disabled button        *)
(* dispatches no click                                                     *)
ClickSubmit ==
    /\ mounted
    /\ activeTab = TabANALYZE
    /\ IF SubmitDisabled
       THEN /\ last' = "ClickSubmit.disabled"
            /\ UNCHANGED <<activeTab, analysisVars, vocabVars, historyVars,
                           analysisCalls, vocabCalls, now, mounted>>
       ELSE handleSubmit

(* A record tagged with the subject selected at completion *)
NewItemSubjectAtCompletion(call, data, clock) ==
    [id |-> ToString(clock),
     timestamp |-> clock,
     subject |-> subject,
     originalProblem |-> call.inputText,
     originalImage |-> call.selectedImage,
     result |-> data]

(* A record built from the text and image on screen at completion *)
NewItemFromScreen(call, data, clock) ==
    [id |-> ToString(clock),
     timestamp |-> clock,
     subject |-> call.subject,
     originalProblem |-> inputText,
     originalImage |-> selectedImage,
     result |-> data]

(* App.tsx 94-101: the record built from the closure and the clock *)
NewItem(call, data, clock) ==
    [id |-> ToString(clock),
     timestamp |-> clock,
     subject |-> call.subject,
     originalProblem |-> call.inputText,
     originalImage |-> call.selectedImage,
     result |-> data]

(* The record put behind the others *)
AppendLast(item, prev) == prev \o <<item>>

(* App.tsx 102: setHistory(prev => [newItem, ...prev]) *)
Prepend(item, prev) == <<item>> \o prev

(* A continuation that drops the reply when the session is no longer       *)
(* Requesting                                                              *)
AnalysisSettlesIfRequesting(i, reply, ok) ==
    /\ mounted
    /\ i \in DOMAIN analysisCalls
    /\ analysisCalls' = RemoveAt(analysisCalls, i)
    /\ IF status # StatusLOADING
       THEN /\ last' = IF AnalyzeThrows(reply) THEN "handleSubmit.catch"
                       ELSE "handleSubmit.then"
            /\ UNCHANGED <<activeTab, analysisVars, vocabVars, historyVars,
                           vocabCalls, now, mounted>>
       ELSE IF AnalyzeThrows(reply)
       THEN /\ status' = StatusERROR
            /\ errorMsg' = Some(ErrorText)
            /\ last' = "handleSubmit.catch"
            /\ UNCHANGED <<activeTab, subject, inputText, selectedImage,
                           result, vocabVars, historyVars, vocabCalls, now,
                           mounted>>
       ELSE LET data == AnalyzeReturns(reply) IN
            /\ result' = Some(data)
            /\ status' = StatusSUCCESS
            /\ history' = Prepend(NewItem(analysisCalls[i], data, now), history)
            /\ SaveHistory(history', ok)
            /\ last' = "handleSubmit.then"
            /\ UNCHANGED <<activeTab, subject, inputText, selectedImage,
                           errorMsg, vocabVars, vocabCalls, now, mounted>>

(* App.tsx 89-108: handleSubmit from the await on, for the call at index i *)
(* and the collaborator's reply; ok tells whether the save that follows    *)
(* an append stores the text.  The updater of line 102 runs in the render  *)
(* and throws when prev is not iterable.                                   *)
AnalysisSettles(i, reply, ok) ==
    /\ mounted
    /\ i \in DOMAIN analysisCalls
    /\ analysisCalls' = RemoveAt(analysisCalls, i)
    /\ IF AnalyzeThrows(reply)
       THEN /\ status' = StatusERROR
            /\ errorMsg' = Some(ErrorText)
            /\ last' = "handleSubmit.catch"
            /\ UNCHANGED <<activeTab, subject, inputText, selectedImage,
                           result, vocabVars, historyVars, vocabCalls, now,
                           mounted>>
       ELSE LET data == AnalyzeReturns(reply) IN
            IF \/ RenderThrows(activeTab, StatusSUCCESS, Some(data))
               \/ ~IsArray(history)
            THEN /\ mounted' = FALSE
                 /\ last' = "handleSubmit.unmount"
                 /\ UNCHANGED <<activeTab, analysisVars, vocabVars,
                                historyVars, vocabCalls, now>>
            ELSE /\ result' = Some(data)
                 /\ status' = StatusSUCCESS
                 /\ history' = Prepend(NewItem(analysisCalls[i], data, now),
                                       history)
                 /\ SaveHistory(history', ok)
                 /\ last' = "handleSubmit.then"
                 /\ UNCHANGED <<activeTab, subject, inputText, selectedImage,
                                errorMsg, vocabVars, vocabCalls, now, mounted>>

----------------------------------------------------------------------------
(* The history *)

(* A load that also puts the loaded record in front of the history *)
loadHistoryItemAdds(i) ==
    /\ mounted
    /\ activeTab = TabHISTORY
    /\ i \in DOMAIN history
    /\ Len(history) + Len(analysisCalls) < MaxHistory
    /\ subject' = history[i].subject
    /\ inputText' = history[i].originalProblem
    /\ selectedImage' = history[i].originalImage
    /\ result' = Some(history[i].result)
    /\ status' = StatusSUCCESS
    /\ activeTab' = TabANALYZE
    /\ history' = <<history[i]>> \o history
    /\ SaveHistory(history', TRUE)
    /\ last' = "loadHistoryItem"
    /\ UNCHANGED <<errorMsg, vocabVars, analysisCalls, vocabCalls, now,
                   mounted>>

(* App.tsx 148-156 *)
loadHistoryItem(i) ==
    /\ mounted
    /\ activeTab = TabHISTORY
    /\ i \in DOMAIN history
    /\ LET item == history[i] IN
       IF RenderThrows(TabANALYZE, StatusSUCCESS, Some(item.result))
       THEN Unmount("loadHistoryItem.unmount")
       ELSE /\ subject' = item.subject
            /\ inputText' = item.originalProblem
            /\ selectedImage' = IF item.originalImage = None
                                   \/ item.originalImage = Some("")
                                THEN None ELSE item.originalImage
            /\ result' = Some(item.result)
            /\ status' = StatusSUCCESS
            /\ activeTab' = TabANALYZE
            /\ last' = "loadHistoryItem"
            /\ UNCHANGED <<errorMsg, vocabVars, historyVars, analysisCalls,
                           vocabCalls, now, mounted>>

(* Index of the first record with the identifier, 0 when there is none *)
FirstIndexOf(prev, id) ==
    IF \E k \in DOMAIN prev : prev[k].id = id
    THEN CHOOSE k \in DOMAIN prev :
            /\ prev[k].id = id
            /\ \A j \in 1..(k - 1) : prev[j].id # id
    ELSE 0

(* Only the first record with the identifier taken out *)
RemoveFirstWithId(prev, id) ==
    IF FirstIndexOf(prev, id) = 0 THEN prev
    ELSE RemoveAt(prev, FirstIndexOf(prev, id))

(* App.tsx 161: prev.filter(item => item.id !== id) *)
FilterOutId(prev, id) == SelectSeq(prev, LAMBDA item : item.id # id)

(* App.tsx 158-163: the delete button of the record at index i; confirmed  *)
(* is the answer to window.confirm                                         *)
deleteHistoryItem(i, confirmed, ok) ==
    /\ mounted
    /\ activeTab = TabHISTORY
    /\ i \in DOMAIN history
    /\ IF confirmed
       THEN /\ history' = FilterOutId(history, history[i].id)
            /\ SaveHistory(history', ok)
            /\ last' = "deleteHistoryItem"
       ELSE /\ last' = "deleteHistoryItem.cancel"
            /\ UNCHANGED historyVars
    /\ UNCHANGED <<activeTab, analysisVars, vocabVars, analysisCalls,
                   vocabCalls, now, mounted>>

(* A clear that drops the newest record only *)
clearHistoryDropsFirst(confirmed, ok) ==
    /\ mounted
    /\ activeTab = TabHISTORY
    /\ Len(history) > 0
    /\ IF confirmed
       THEN /\ history' = Tail(history)
            /\ SaveHistory(history', ok)
            /\ last' = "clearHistory"
       ELSE /\ last' = "clearHistory.cancel"
            /\ UNCHANGED historyVars
    /\ UNCHANGED <<activeTab, analysisVars, vocabVars, analysisCalls,
                   vocabCalls, now, mounted>>

(* App.tsx 165-169 and 429-433: the button exists while the history has    *)
(* records                                                                 *)
clearHistory(confirmed, ok) ==
    /\ mounted
    /\ activeTab = TabHISTORY
    /\ Len(history) > 0
    /\ IF confirmed
       THEN /\ history' = <<>>
            /\ SaveHistory(history', ok)
            /\ last' = "clearHistory"
       ELSE /\ last' = "clearHistory.cancel"
            /\ UNCHANGED historyVars
    /\ UNCHANGED <<activeTab, analysisVars, vocabVars, analysisCalls,
                   vocabCalls, now, mounted>>

----------------------------------------------------------------------------
(* The vocabulary session *)

(* App.tsx 357, the topic field of the vocabulary tab *)
setVocabTopic(topic) ==
    /\ mounted
    /\ activeTab = TabVOCABULARY
    /\ vocabTopic' = topic
    /\ last' = "setVocabTopic"
    /\ UNCHANGED <<activeTab, analysisVars, vocabStatus, vocabResult,
                   revealedWords, historyVars, analysisCalls, vocabCalls,
                   now, mounted>>

(* A handler without the test of the topic *)
handleVocabSubmitAnyTopic ==
    /\ Len(vocabCalls) < MaxVocabCalls
    /\ vocabStatus' = StatusLOADING
    /\ vocabResult' = None
    /\ revealedWords' = {}
    /\ vocabCalls' = Append(vocabCalls, [vocabTopic |-> vocabTopic])
    /\ last' = "handleVocabSubmit"
    /\ UNCHANGED <<activeTab, analysisVars, vocabTopic, historyVars,
                   analysisCalls, now, mounted>>

(* App.tsx 111-119: handleVocabSubmit up to the await *)
handleVocabSubmit ==
    IF vocabTopic = ""
    THEN /\ last' = "handleVocabSubmit.return"
         /\ UNCHANGED <<activeTab, analysisVars, vocabVars, historyVars,
                        analysisCalls, vocabCalls, now, mounted>>
    ELSE /\ Len(vocabCalls) < MaxVocabCalls
         /\ vocabStatus' = StatusLOADING
         /\ vocabResult' = None
         /\ revealedWords' = {}
         /\ vocabCalls' = Append(vocabCalls, [vocabTopic |-> vocabTopic])
         /\ last' = "handleVocabSubmit"
         /\ UNCHANGED <<activeTab, analysisVars, vocabTopic, historyVars,
                        analysisCalls, now, mounted>>

(* App.tsx 360: onKeyDown of the topic field, Enter calls the handler      *)
(* whatever the status                                                     *)
VocabKeyDownEnter ==
    /\ mounted
    /\ activeTab = TabVOCABULARY
    /\ handleVocabSubmit

(* App.tsx 364: the disabled attribute of the generate button *)
VocabSubmitDisabled == vocabStatus = StatusLOADING \/ vocabTopic = ""

(* App.tsx 362-365: a click on the generate button *)
ClickVocabSubmit ==
    /\ mounted
    /\ activeTab = TabVOCABULARY
    /\ IF VocabSubmitDisabled
       THEN /\ last' = "ClickVocabSubmit.disabled"
            /\ UNCHANGED <<activeTab, analysisVars, vocabVars, historyVars,
                           analysisCalls, vocabCalls, now, mounted>>
       ELSE handleVocabSubmit

(* generateVocabulary, gemini.ts 232-249: the replies are a failure or a   *)
(* vocabulary of n entries                                                 *)
VocabReplies ==
    {Rejected, EmptyText, GarbageText}
      \cup {[kind |-> "json", words |-> n] : n \in 1..MaxWords}

(* A continuation that writes the status of the analysis session too *)
VocabSettlesSharedStatus(i, reply) ==
    /\ mounted
    /\ i \in DOMAIN vocabCalls
    /\ vocabCalls' = RemoveAt(vocabCalls, i)
    /\ IF reply.kind # "json"
       THEN /\ vocabStatus' = StatusERROR
            /\ status' = StatusERROR
            /\ last' = "handleVocabSubmit.catch"
            /\ UNCHANGED <<vocabTopic, vocabResult, revealedWords>>
       ELSE /\ vocabResult' = Some(VocabData(reply.words))
            /\ vocabStatus' = StatusSUCCESS
            /\ status' = status
            /\ last' = "handleVocabSubmit.then"
            /\ UNCHANGED <<vocabTopic, revealedWords>>
    /\ UNCHANGED <<activeTab, subject, inputText, selectedImage, result,
                   errorMsg, historyVars, analysisCalls, now, mounted>>

(* App.tsx 119-125: handleVocabSubmit from the await on *)
VocabSettles(i, reply) ==
    /\ mounted
    /\ i \in DOMAIN vocabCalls
    /\ vocabCalls' = RemoveAt(vocabCalls, i)
    /\ IF reply.kind # "json"
       THEN /\ vocabStatus' = StatusERROR
            /\ last' = "handleVocabSubmit.catch"
            /\ UNCHANGED <<vocabTopic, vocabResult, revealedWords>>
       ELSE /\ vocabResult' = Some(VocabData(reply.words))
            /\ vocabStatus' = StatusSUCCESS
            /\ last' = "handleVocabSubmit.then"
            /\ UNCHANGED <<vocabTopic, revealedWords>>
    /\ UNCHANGED <<activeTab, analysisVars, historyVars, analysisCalls, now,
                   mounted>>

(* App.tsx 128-136 and 389-400: a click on the card with index idx *)
toggleWordReveal(idx) ==
    /\ mounted
    /\ activeTab = TabVOCABULARY
    /\ vocabResult # None
    /\ idx \in 0..(Len(vocabResult[1].words) - 1)
    /\ revealedWords' = IF idx \in revealedWords
                        THEN revealedWords \ {idx}
                        ELSE revealedWords \cup {idx}
    /\ last' = "toggleWordReveal"
    /\ UNCHANGED <<activeTab, analysisVars, vocabTopic, vocabStatus,
                   vocabResult, historyVars, analysisCalls, vocabCalls, now,
                   mounted>>

(* App.tsx 138-145 and 372-385: the button exists while a result is shown *)
toggleAllWords ==
    /\ mounted
    /\ activeTab = TabVOCABULARY
    /\ vocabResult # None
    /\ revealedWords' =
          IF Cardinality(revealedWords) = Len(vocabResult[1].words)
          THEN {}
          ELSE {k - 1 : k \in DOMAIN vocabResult[1].words}
    /\ last' = "toggleAllWords"
    /\ UNCHANGED <<activeTab, analysisVars, vocabTopic, vocabStatus,
                   vocabResult, historyVars, analysisCalls, vocabCalls, now,
                   mounted>>

----------------------------------------------------------------------------
(* Specifications.  Each one is the application under an environment: the  *)
(* events the user and the collaborator produce, and whether the clock     *)
(* advances and setItem throws.  Both sessions together with every         *)
(* environment choice at once are beyond exhaustive search, so the         *)
(* environment is split by what a property is about.                       *)

InitSaved == Init /\ writeFailures = 0

(* Actions of the analysis tab and of the history tab *)
AnalysisInputs(subjects) ==
    \/ \E subj \in subjects : setSubject(subj)
    \/ \E text \in Texts : setInputText(text)
    \/ \E img \in Images : handleImageUpload(img)
    \/ removeImage
    \/ ClickSubmit

HistoryActions(oks) ==
    \/ \E i \in 1..MaxHistory : loadHistoryItem(i)
    \/ \E i \in 1..MaxHistory, confirmed \in BOOLEAN, ok \in oks :
          deleteHistoryItem(i, confirmed, ok)
    \/ \E confirmed \in BOOLEAN, ok \in oks : clearHistory(confirmed, ok)

(* Actions of the vocabulary tab *)
VocabActions ==
    \/ \E topic \in Topics : setVocabTopic(topic)
    \/ VocabKeyDownEnter
    \/ ClickVocabSubmit
    \/ \E i \in 1..MaxVocabCalls, reply \in VocabReplies : VocabSettles(i, reply)
    \/ \E idx \in 0..(MaxWords - 1) : toggleWordReveal(idx)
    \/ toggleAllWords

(* The history store: one subject, every reply, the clock advances,        *)
(* setItem may throw, the page may be reloaded                             *)
NextHistory ==
    \/ Tick
    \/ \E ok \in BOOLEAN : Reload(ok)
    \/ \E tab \in Tabs : setActiveTab(tab)
    \/ AnalysisInputs({"MATH"})
    \/ \E i \in 1..MaxCalls, reply \in AnalysisReplies, ok \in BOOLEAN :
          AnalysisSettles(i, reply, ok)
    \/ HistoryActions(BOOLEAN)

SpecHistory == Init /\ [][NextHistory]_vars

(* Both sessions: every action of the three tabs; the collaborator fails   *)
(* or answers with a well-formed result, setItem stores, the clock stands  *)
Next ==
    \/ \E tab \in Tabs : setActiveTab(tab)
    \/ AnalysisInputs({"MATH"})
    \/ \E i \in 1..MaxCalls,
          reply \in AnalysisReplies \ {JsonText(StringifyAnalysis(MissingPracticeQuestion))} :
          AnalysisSettles(i, reply, TRUE)
    \/ HistoryActions({TRUE})
    \/ VocabActions

Spec == InitSaved /\ [][Next]_vars

(* Two subjects: the analysis and history tabs, the collaborator fails or  *)
(* answers with a well-formed result, setItem stores, the clock stands     *)
NextSubject ==
    \/ \E tab \in Tabs \ {TabVOCABULARY} : setActiveTab(tab)
    \/ AnalysisInputs({"MATH", "ENGLISH"})
    \/ \E i \in 1..MaxCalls,
          reply \in {Rejected, JsonText(StringifyAnalysis(WellFormed))} :
          AnalysisSettles(i, reply, TRUE)
    \/ HistoryActions({TRUE})

SpecSubject == InitSaved /\ [][NextSubject]_vars

(* What the slot may hold when the page is opened: nothing, an empty      *)
(* text, a text that is not JSON, the JSON of an object and of null,       *)
(* histories this application wrote, and a history whose record has a      *)
(* subject that is not a Subject                                           *)
SavedItem(clock) ==
    NewItem([inputText |-> "x+1=2", subject |-> "MATH", selectedImage |-> None],
            WellFormed, clock)
SlotContents ==
    {None, Some(EmptyText), Some(GarbageText),
     Some(JsonText(Obj(<<>>))), Some(JsonText(JNull)),
     Some(StringifyHistory(<<>>)),
     Some(StringifyHistory(<<SavedItem(0)>>)),
     Some(StringifyHistory(<<[SavedItem(0) EXCEPT !.subject = "LATIN"]>>))}

(* The page opened on any slot content: App.tsx 24-49 and the save of the  *)
(* mount effect, 52-58                                                     *)
InitLoad ==
    /\ activeTab = TabANALYZE
    /\ subject = "MATH"
    /\ inputText = ""
    /\ selectedImage = None
    /\ status = StatusIDLE
    /\ result = None
    /\ errorMsg = None
    /\ vocabTopic = ""
    /\ vocabStatus = StatusIDLE
    /\ vocabResult = None
    /\ revealedWords = {}
    /\ \E slot \in SlotContents, ok \in BOOLEAN :
          /\ history = LoadHistory(slot)
          /\ storage = IF ok THEN Some(StringifyHistory(history)) ELSE slot
          /\ writeFailures = IF ok THEN 0 ELSE 1
    /\ analysisCalls = <<>>
    /\ vocabCalls = <<>>
    /\ now = 0
    /\ mounted = TRUE
    /\ last = "mount"

(* Startup on any slot content: the analysis and history tabs, the         *)
(* collaborator fails or answers with a well-formed result, the page may   *)
(* be reloaded                                                             *)
NextLoad ==
    \/ \E ok \in BOOLEAN : Reload(ok)
    \/ \E tab \in Tabs \ {TabVOCABULARY} : setActiveTab(tab)
    \/ AnalysisInputs({"MATH"})
    \/ \E i \in 1..MaxCalls,
          reply \in {Rejected, JsonText(StringifyAnalysis(WellFormed))} :
          AnalysisSettles(i, reply, TRUE)
    \/ HistoryActions({TRUE})

SpecLoad == InitLoad /\ [][NextLoad]_vars

----------------------------------------------------------------------------
(* Properties *)

MutatingOps == {"handleSubmit.then", "deleteHistoryItem", "clearHistory"}
SubmitOps == {"ClickSubmit.disabled", "handleSubmit.return", "handleSubmit"}
KnownIds == {ToString(n) : n \in 0..MaxClock} \cup {"none"}
HasDuplicateIds(h) ==
    \E i, j \in DOMAIN h : i # j /\ h[i].id = h[j].id

(* C1: a successful completion puts its record at index 0 of the history   *)
(* and leaves the records that were there behind it, in their order.       *)
C1_NewestFirst ==
    [][last' = "handleSubmit.then" =>
          /\ Len(history') = Len(history) + 1
          /\ Head(history').id = ToString(now)
          /\ Head(history').result = result'[1]
          /\ Tail(history') = history]_vars

(* C1 witness: record A then record B were appended and the history is     *)
(* [B, A].                                                                 *)
C1_Witness ==
    /\ last = "handleSubmit.then"
    /\ Len(history) = 2
    /\ history[1].timestamp > history[2].timestamp
    /\ history[1].id = ToString(now)

C3_MissingFieldIsFailure ==
    /\ (status = StatusSUCCESS /\ result # None)
          => "practiceQuestion" \in DOMAIN result[1]
    /\ \A k \in DOMAIN history : "practiceQuestion" \in DOMAIN history[k].result

(* C4: each session has at most one collaborator call awaited.             *)
C4_OneCallPerSession ==
    Len(analysisCalls) <= 1 /\ Len(vocabCalls) <= 1

(* C5: no two records of the history have the same identifier.             *)
C5_UniqueIds == ~HasDuplicateIds(history)

(* C6: the history grows only by a successful completion of an analysis    *)
(* request, whose result is the record's; a request that fails leaves the  *)
(* history and the slot as they were; no step other than an append, a      *)
(* remove or a clear changes either.                                       *)
C6_OnlySuccessAdds ==
    [][/\ Len(history') > Len(history) =>
             /\ last' = "handleSubmit.then"
             /\ status' = StatusSUCCESS
             /\ Head(history').result = result'[1]
       /\ last' = "handleSubmit.catch" =>
             /\ status' = StatusERROR
             /\ history' = history
             /\ storage' = storage
       /\ last' \notin MutatingOps => (history' = history /\ storage' = storage)]_vars

(* C6 witness: a request has failed while the history held a record and a  *)
(* vocabulary request had succeeded.                                       *)
C6_Witness ==
    /\ last = "handleSubmit.catch"
    /\ status = StatusERROR
    /\ Len(history) = 1
    /\ vocabStatus = StatusSUCCESS

(* C7: a submit with an empty text and no image changes nothing of the     *)
(* session, of its inputs and of the history, and makes no call.           *)
C7_EmptySubmitChangesNothing ==
    [][(last' \in SubmitOps /\ inputText = "" /\ selectedImage = None) =>
          UNCHANGED <<activeTab, analysisVars, historyVars, analysisCalls,
                      vocabVars, vocabCalls, mounted>>]_vars

(* C7 witness: the submit was rejected with nothing to analyse in a        *)
(* session that is Failed.                                                 *)
C7_Witness ==
    /\ last = "ClickSubmit.disabled"
    /\ inputText = ""
    /\ selectedImage = None
    /\ status = StatusERROR

(* C8: a confirmed remove takes out the first record with the identifier   *)
(* of the record clicked, and no other record.                             *)
C8_RemovesFirstOnly ==
    [][last' = "deleteHistoryItem" =>
          \E i \in DOMAIN history :
             history' = RemoveFirstWithId(history, history[i].id)]_vars

(* C9: remove applied twice gives what remove applied once gives, for the  *)
(* history of every reachable state and every identifier.                  *)
C9_RemoveIdempotent ==
    \A id \in KnownIds :
       FilterOutId(FilterOutId(history, id), id) = FilterOutId(history, id)

(* C9 witness: a remove has run and has left one record, which a remove    *)
(* of its own identifier would take out.                                   *)
C9_Witness ==
    /\ last = "deleteHistoryItem"
    /\ Len(history) = 1
    /\ FilterOutId(history, history[1].id) = <<>>

(* C10 as stated: after a confirmed clear the history is empty and the     *)
(* slot holds the empty list.                                              *)
C10_ClearEmptiesBoth ==
    last = "clearHistory" =>
       (history = <<>> /\ storage = Some(StringifyHistory(<<>>)))

(* C10 amended: a confirmed clear leaves the history empty whatever its    *)
(* size was; the slot then holds the empty list when setItem did not       *)
(* throw, and the text it had when setItem threw.                          *)
C10_ClearEmptiesMemory ==
    [][last' = "clearHistory" =>
          /\ history' = <<>>
          /\ IF writeFailures' = writeFailures
             THEN storage' = Some(StringifyHistory(<<>>))
             ELSE storage' = storage]_vars

(* C10 witness: a clear has run and the slot holds the empty list.         *)
C10_Witness ==
    /\ last = "clearHistory"
    /\ history = <<>>
    /\ storage = Some(StringifyHistory(<<>>))

(* The slot holds the text of an array *)
SlotHoldsArray(slot) ==
    /\ slot # None
    /\ slot[1].kind = "json"
    /\ slot[1].tree.t = "array"

(* C11: a page opened on a slot that is absent or does not hold the text   *)
(* of a list starts with the empty history, and starts (no error).         *)
C11_InvalidSlotLoadsEmpty ==
    [][last' = "reload" /\ ~SlotHoldsArray(storage) =>
          /\ history' = <<>>
          /\ mounted']_vars

(* C12: when the slot holds the text of the history in memory (every save *)
(* since the last change stored it), a reload brings back the same         *)
(* history: the same records, field for field, in the same order.          *)
C12_RoundTrip ==
    [][last' = "reload" /\ storage = Some(StringifyHistory(history)) =>
          history' = history]_vars

(* C12 witness: a reload after two appends that were all saved; the newer  *)
(* record has an image and the later clock value, the older has no image.  *)
C12_Witness ==
    /\ last = "reload"
    /\ writeFailures = 0
    /\ Len(history) = 2
    /\ history[1].originalImage # None
    /\ history[1].timestamp = 1
    /\ history[2].originalImage = None
    /\ storage = Some(StringifyHistory(history))

(* C13: when an awaited analysis call returns a result, the session is    *)
(* Succeeded and exposes that result, and exactly one record is put in     *)
(* front of the history: its result is the exposed one, its text and       *)
(* image are the ones sent with the request that call belongs to.          *)
C13_SuccessAppendsSubmitted ==
    [][last' = "handleSubmit.then" =>
          /\ status' = StatusSUCCESS
          /\ result' # None
          /\ Len(history') = Len(history) + 1
          /\ Tail(history') = history
          /\ Head(history').result = result'[1]
          /\ \E i \in DOMAIN analysisCalls :
                /\ analysisCalls' = RemoveAt(analysisCalls, i)
                /\ Head(history').originalProblem = analysisCalls[i].inputText
                /\ Head(history').originalImage = analysisCalls[i].selectedImage]_vars

(* C13 witness: a request sent with a text and no image completed after    *)
(* the user had emptied the text field and picked an image; the record     *)
(* holds the well-formed result, the text sent and no image.               *)
C13_Witness ==
    /\ last = "handleSubmit.then"
    /\ status = StatusSUCCESS
    /\ result = Some(WellFormed)
    /\ inputText = ""
    /\ selectedImage # None
    /\ Head(history).originalProblem = "x+1=2"
    /\ Head(history).originalImage = None
    /\ Head(history).result = WellFormed

(* C14: the record a successful completion creates is tagged with the     *)
(* subject selected at that moment, also when the selection changed        *)
(* between the request and its completion.                                 *)
C14_TaggedWithSubjectAtCompletion ==
    [][last' = "handleSubmit.then" => Head(history').subject = subject']_vars

(* C14 amended: the record is tagged with the subject that was selected    *)
(* when its request was issued, the one sent to the collaborator, whatever *)
(* the selection is at completion.                                         *)
C14_TaggedWithSubjectAtRequest ==
    [][last' = "handleSubmit.then" =>
          \E i \in DOMAIN analysisCalls :
             /\ analysisCalls' = RemoveAt(analysisCalls, i)
             /\ Head(history').subject = analysisCalls[i].subject
             /\ Head(history').originalProblem = analysisCalls[i].inputText
             /\ Head(history').originalImage = analysisCalls[i].selectedImage]_vars

(* C14 witness: a request issued under MATH completed while ENGLISH was    *)
(* selected, and its record is tagged MATH.                                *)
C14_Witness ==
    /\ last = "handleSubmit.then"
    /\ subject = "ENGLISH"
    /\ Len(history) = 1
    /\ Head(history).subject = "MATH"

(* C15: loading a history record sets the analysis session to Succeeded   *)
(* with the record's result, sets subject, text and image to the record's  *)
(* values, issues no collaborator call and leaves the history as it was.   *)
C15_LoadShowsRecord ==
    [][last' \in {"loadHistoryItem", "loadHistoryItem.unmount"} =>
          /\ mounted'
          /\ status' = StatusSUCCESS
          /\ \E i \in DOMAIN history :
                /\ result' = Some(history[i].result)
                /\ subject' = history[i].subject
                /\ inputText' = history[i].originalProblem
                /\ selectedImage' = history[i].originalImage
          /\ analysisCalls' = analysisCalls
          /\ vocabCalls' = vocabCalls
          /\ history' = history
          /\ storage' = storage]_vars

(* C16: every change of the analysis status is a move into Requesting    *)
(* from another status, a move from Requesting to Succeeded or Failed, or  *)
(* a move into Succeeded by loading a record; so Succeeded never becomes   *)
(* Failed directly, Failed never becomes Succeeded by a response, and      *)
(* nothing returns to Idle.                                                *)
C16_StatusMachine ==
    [][status' # status =>
          \/ status' = StatusLOADING /\ last' = "handleSubmit"
          \/ /\ status = StatusLOADING
             /\ status' \in {StatusSUCCESS, StatusERROR}
             /\ last' \in {"handleSubmit.then", "handleSubmit.catch"}
          \/ status' = StatusSUCCESS /\ last' = "loadHistoryItem"]_vars

(* C17: every request issued is resolved: while the page is open, a call  *)
(* stops being awaited only by its reply being applied, which leaves its   *)
(* session Succeeded or Failed, and as long as a call is awaited the       *)
(* application is there to apply the reply.                                *)
C17_EveryCallResolves ==
    [][last' # "reload" =>
          /\ Len(analysisCalls') < Len(analysisCalls) =>
                /\ last' \in {"handleSubmit.then", "handleSubmit.catch"}
                /\ status' \in {StatusSUCCESS, StatusERROR}
          /\ Len(vocabCalls') < Len(vocabCalls) =>
                /\ last' \in {"handleVocabSubmit.then", "handleVocabSubmit.catch"}
                /\ vocabStatus' \in {StatusSUCCESS, StatusERROR}
          /\ Len(analysisCalls') + Len(vocabCalls') > 0 => mounted']_vars

(* C18: a reply is applied when it arrives whatever the session has       *)
(* become since its request: a result is exposed with Succeeded and        *)
(* recorded, a failure sets Failed with its message; the same for the      *)
(* vocabulary session.  The witness is the state the claim says exists.    *)
C18_ReplyAppliedWhateverState ==
    [][/\ last' = "handleSubmit.then" =>
             /\ status' = StatusSUCCESS
             /\ result' # None
             /\ Len(history') = Len(history) + 1
             /\ result'[1] = Head(history').result
       /\ last' = "handleSubmit.catch" =>
             /\ status' = StatusERROR
             /\ errorMsg' = Some(ErrorText)
       /\ last' = "handleVocabSubmit.then" =>
             /\ vocabStatus' = StatusSUCCESS
             /\ vocabResult' # None
       /\ last' = "handleVocabSubmit.catch" =>
             vocabStatus' = StatusERROR]_vars

(* C18 witness: the only record was loaded while a request was awaited     *)
(* (the request had emptied the result, the load set it), and the failure  *)
(* of that older request was then applied: Failed beside the loaded        *)
(* result.                                                                 *)
C18_Witness ==
    /\ last = "handleSubmit.catch"
    /\ status = StatusERROR
    /\ result # None
    /\ Len(history) = 1
    /\ result[1] = history[1].result
    /\ inputText = history[1].originalProblem

(* C19: when the write to the slot throws, the slot keeps the content it  *)
(* had, the change made in memory stays (the record appended, the records  *)
(* removed, the history emptied), no status becomes Failed, and nothing    *)
(* else happens: no message, the application stays mounted.                *)
C19_FailedWriteKeepsMutation ==
    [][writeFailures' > writeFailures =>
          /\ storage' = storage
          /\ mounted'
          /\ status' = StatusERROR => status = StatusERROR
          /\ vocabStatus' = vocabStatus
          /\ last' # "reload" => errorMsg' = errorMsg
          /\ last' \in MutatingOps \cup {"reload"}
          /\ last' = "handleSubmit.then" =>
                /\ Len(history') = Len(history) + 1
                /\ Tail(history') = history
                /\ status' = StatusSUCCESS
                /\ result' = Some(Head(history').result)
          /\ last' = "deleteHistoryItem" =>
                /\ Len(history') < Len(history)
                /\ \E i \in DOMAIN history :
                      history' = FilterOutId(history, history[i].id)
          /\ last' = "clearHistory" => history' = <<>>
          /\ last' = "reload" => history' = LoadHistory(storage)]_vars

(* C19 witness: the save of the first append threw: the record is in       *)
(* memory, the session is Succeeded, the slot still holds the empty list.  *)
C19_Witness ==
    /\ last = "handleSubmit.then"
    /\ writeFailures = 1
    /\ Len(history) = 1
    /\ status = StatusSUCCESS
    /\ mounted
    /\ storage = Some(StringifyHistory(<<>>))

(* C20: whenever a reply moves the vocabulary session to Succeeded with a *)
(* new result, the reveal-set is empty right after.                        *)
C20_SuccessResetsRevealSet ==
    [][last' = "handleVocabSubmit.then" => revealedWords' = {}]_vars

(* C21: toggleAll with a vocabulary of n entries shown: a reveal-set that  *)
(* is not exactly {0..n-1} becomes {0..n-1}, the reveal-set {0..n-1}       *)
(* becomes empty.                                                          *)
C21_ToggleAllByFullIndexSet ==
    [][last' = "toggleAllWords" =>
          LET full == 0..(Len(vocabResult[1].words) - 1) IN
          revealedWords' = IF revealedWords # full THEN full ELSE {}]_vars

VocabSubmitOps ==
    {"ClickVocabSubmit.disabled", "handleVocabSubmit.return", "handleVocabSubmit"}

(* C22: a vocabulary submit with an empty topic, by the button or by       *)
(* Enter, changes nothing: the status, the result and the reveal-set stay  *)
(* as they were and no call is issued.                                     *)
C22_EmptyTopicChangesNothing ==
    [][last' \in VocabSubmitOps /\ vocabTopic = "" =>
          /\ last' # "handleVocabSubmit"
          /\ UNCHANGED <<vocabVars, vocabCalls, analysisVars, analysisCalls,
                         historyVars, activeTab, mounted>>]_vars

(* C22 witness: Enter on an empty topic while a vocabulary is shown with   *)
(* a card revealed; the handler returned and all of it is still there.     *)
C22_Witness ==
    /\ last = "handleVocabSubmit.return"
    /\ vocabTopic = ""
    /\ vocabStatus = StatusSUCCESS
    /\ vocabResult # None
    /\ revealedWords # {}
    /\ vocabCalls = <<>>

VocabOps ==
    VocabSubmitOps \cup {"setVocabTopic", "handleVocabSubmit.then",
                         "handleVocabSubmit.catch", "toggleWordReveal",
                         "toggleAllWords"}
AnalysisAndHistoryOps ==
    SubmitOps \cup {"setSubject", "setInputText", "handleImageUpload",
                    "removeImage", "handleSubmit.then", "handleSubmit.catch",
                    "loadHistoryItem", "deleteHistoryItem",
                    "deleteHistoryItem.cancel", "clearHistory",
                    "clearHistory.cancel"}

C24_SubjectEnumerated ==
    IsArray(history) => \A i \in DOMAIN history : history[i].subject \in Subject

(* The slot holds a text JSON.parse rejects *)
SlotUnreadable(slot) == slot # None /\ slot[1].kind = "garbage"

(* C25: once startup has completed the slot no longer holds unreadable     *)
(* content: a failed deserialization resets the slot to the empty list.    *)
C25_UnreadableContentGone == ~SlotUnreadable(storage)

(* C25 amended: a startup on an unreadable slot gives the empty history    *)
(* without error; the slot then holds the empty list provided the write    *)
(* of the mount effect did not throw, and keeps the unreadable content     *)
(* when it threw, in which case the next startup again gives the empty     *)
(* history without error.                                                  *)
C25_UnreadableSlotLoadsEmpty ==
    /\ [](last \in {"mount", "reload"} /\ SlotUnreadable(storage) =>
            /\ history = <<>>
            /\ mounted
            /\ writeFailures > 0)
    /\ [][last' = "reload" /\ SlotUnreadable(storage) =>
            /\ history' = <<>>
            /\ mounted'
            /\ storage' = IF writeFailures' = writeFailures
                          THEN Some(StringifyHistory(<<>>))
                          ELSE storage]_vars

(* C25 witness: the page was opened on an unreadable slot and the write   *)
(* of the mount effect threw: the history is empty, the application is     *)
(* mounted and the slot still holds the unreadable text.                   *)
C25_Witness ==
    /\ last = "mount"
    /\ SlotUnreadable(storage)
    /\ writeFailures = 1
    /\ history = <<>>
    /\ mounted
    /\ status = StatusIDLE

(* C26: the reveal-set holds only indices of the vocabulary shown, and is  *)
(* empty when none is shown.                                               *)
C26_RevealSetWithinResult ==
    IF vocabResult = None
    THEN revealedWords = {}
    ELSE revealedWords \subseteq 0..(Len(vocabResult[1].words) - 1)

(* C27: the fields of the analysis session agree with its status: a        *)
(* result in Succeeded; no result and no message in Requesting; a message  *)
(* and no result in Failed.                                                *)
C27_FieldsAgreeWithStatus ==
    /\ status = StatusSUCCESS => result # None
    /\ status = StatusLOADING => result = None /\ errorMsg = None
    /\ status = StatusERROR => errorMsg # None /\ result = None

====
